---- MODULE Spec2Model ----
(***************************************************************************)
(* California housing price predictor (src/app.py): a Streamlit script.    *)
(* Every browser session runs the script top to bottom in its own thread   *)
(* (a "script run"); a widget change, a button click or a page refresh     *)
(* starts the next run of that session.  The process-wide state is the     *)
(* st.cache_resource entry of load_models and the two artifact files.      *)
(*                                                                         *)
(* Number encoding: longitude and latitude are in hundredths of a degree   *)
(* (slider step 0.01), median_income is in tenths (slider step 0.1); the   *)
(* other fields are the integers of the source.  A quotient is kept exact  *)
(* as the pair <<numerator, denominator>>; its rendering to text is not    *)
(* modelled.                                                               *)
(***************************************************************************)
EXTENDS Integers, Sequences, FiniteSets, TLC

VARIABLES
    files,      \* content of model.pkl and pipeline.pkl on disk
    fileWrites, \* number of changes made to the files by the environment
    cache,      \* the st.cache_resource entry of load_models()
    lock,       \* holder of the cache entry's compute lock, or NoSession
    runsLeft,   \* script runs that may still be started
    pc,         \* per session: position of its script run
    waited,     \* per session: load_models was called while another run held the lock
    tmpModel,   \* per session: local `model` inside load_models (line 227)
    loaded,     \* per session: the pair bound at line 234
    inputs,     \* per session: the widget values (session state)
    button,     \* per session: predict_button of the current run
    trace,      \* per session: calls made by the current run, in order
    out,        \* per session: elements displayed by the current run, in order
    since,      \* per session: the failures that had happened when its run started
    failures    \* kinds of failure that have happened: "load", "inference"

vars == <<files, fileWrites, cache, lock, runsLeft, pc, waited, tmpModel, loaded,
          inputs, button, trace, out, since, failures>>

----------------------------------------------------------------------------
(* Bounds of the model *)

MaxRuns == 5

MaxFileWrites == 1

Sessions == {"s1", "s2"}

NoSession == "none"

----------------------------------------------------------------------------
(* The artifact files *)

FileNames == {"model.pkl", "pipeline.pkl"}

\* A file is absent, present but not a loadable pickle, or one of two
\* fitted artifacts (two trainings of the same pipeline/model).
Versions == {"v1", "v2"}

Contents == {"missing", "corrupt"} \cup Versions

\* joblib.load(path): FileNotFoundError for an absent file, another
\* exception for a file that cannot be unpickled, else the object.
JoblibLoad(content) ==
    CASE content = "missing" -> [raised |-> TRUE, exc |-> "FileNotFoundError", val |-> "none"]
      [] content = "corrupt" -> [raised |-> TRUE, exc |-> "UnpicklingError", val |-> "none"]
      [] OTHER               -> [raised |-> FALSE, exc |-> "none", val |-> content]

Empty == [model |-> "none", pipeline |-> "none"]

----------------------------------------------------------------------------
(* The input widgets, lines 261-343 *)

Fields == {"longitude", "latitude", "housing_median_age", "total_rooms",
           "total_bedrooms", "population", "households", "median_income",
           "ocean_proximity"}

NumericFields == Fields \ {"ocean_proximity"}

OceanOptions == <<"<1H OCEAN", "INLAND", "ISLAND", "NEAR BAY", "NEAR OCEAN">>

Widgets ==
    [longitude          |-> [min_value |-> -12500, max_value |-> -11400, value |-> -11800],
     latitude           |-> [min_value |-> 3200,   max_value |-> 4200,   value |-> 3400],
     housing_median_age |-> [min_value |-> 1,      max_value |-> 52,     value |-> 20],
     total_rooms        |-> [min_value |-> 1,      max_value |-> 20000,  value |-> 2000],
     population         |-> [min_value |-> 1,      max_value |-> 20000,  value |-> 1000],
     households         |-> [min_value |-> 1,      max_value |-> 5000,   value |-> 400],
     median_income      |-> [min_value |-> 5,      max_value |-> 150,    value |-> 35],
     total_bedrooms     |-> [min_value |-> 1,      max_value |-> 5000,   value |-> 500]]

\* A slider or number_input returns a value between its min_value and
\* max_value; the model takes the two ends and the initial value.
Positions == {"min_value", "value", "max_value"}

\* Mutant: total_bedrooms takes the max_value of total_rooms.
WidgetValueWrongMax(field, pos) ==
    IF field = "total_bedrooms" /\ pos = "max_value" THEN 20000
    ELSE Widgets[field][pos]

\* Mutant: the population input accepts 0.
WidgetValueZeroPopulation(field, pos) ==
    IF field = "population" /\ pos = "min_value" THEN 0
    ELSE Widgets[field][pos]

\* Mutant: the households input accepts 0.
WidgetValueZeroHouseholds(field, pos) ==
    IF field = "households" /\ pos = "min_value" THEN 0
    ELSE Widgets[field][pos]

WidgetValue(field, pos) == Widgets[field][pos]

\* The values of all nine widgets: every numeric widget at position pos,
\* the selectbox at option i.
WidgetState(pos, i) ==
    [f \in Fields |-> IF f = "ocean_proximity" THEN OceanOptions[i]
                      ELSE WidgetValue(f, pos)]

\* A first run shows every widget at its initial value; a selectbox
\* starts at its first option.
DefaultState == WidgetState("value", 1)

OceanPicks == {1, 3}

InputChoices == {WidgetState(pos, i) : pos \in Positions, i \in OceanPicks}

----------------------------------------------------------------------------
(* The two artifacts.  model.pkl and pipeline.pkl are not among the      *)
(* sources: what a fitted pipeline or model computes is taken from the     *)
(* specification (section 4.2: "purely functional given fixed artifacts";  *)
(* a transformer may reject a category, an estimator a feature layout).    *)
(* The stand-ins below are therefore functions of the artifact and of the  *)
(* argument alone.  That purity is an assumption about the artifacts, not  *)
(* a property established here; no property below states it.               *)

\* pipeline.transform(input_df), line 370.  Pipeline v2 stands for an
\* encoder fitted without the ISLAND category: it rejects such a row.
Transform(p, row) ==
    IF p = "v2" /\ row.ocean_proximity = "ISLAND"
    THEN [raised |-> TRUE, exc |-> "ValueError: unknown category", val |-> Empty]
    ELSE [raised |-> FALSE, exc |-> "none", val |-> [pipeline |-> p, row |-> row]]

\* model.predict(transformed_input), line 371.  A model rejects the
\* feature layout of a pipeline it was not trained with; otherwise it
\* returns a one-element array.
Predict(m, X) ==
    IF X.pipeline # m
    THEN [raised |-> TRUE, exc |-> "ValueError: feature shape mismatch", val |-> <<>>]
    ELSE [raised |-> FALSE, exc |-> "none",
          val |-> << 50000 + 1000 * X.row.median_income
                     + 100 * X.row.housing_median_age
                     + (IF X.row.ocean_proximity = "ISLAND" THEN 80000 ELSE 0)
                     + (IF m = "v2" THEN 2500 ELSE 0) >>]

----------------------------------------------------------------------------
(* The prediction handler, lines 353-433 *)

\* The single row of input_df, lines 356-366.
InputRow(inp) ==
    [longitude          |-> inp.longitude,
     latitude           |-> inp.latitude,
     housing_median_age |-> inp.housing_median_age,
     total_rooms        |-> inp.total_rooms,
     total_bedrooms     |-> inp.total_bedrooms,
     population         |-> inp.population,
     households         |-> inp.households,
     median_income      |-> inp.median_income,
     ocean_proximity    |-> inp.ocean_proximity]

\* a / b of Python: ZeroDivisionError for a zero divisor.
TrueDiv(a, b) ==
    IF b = 0 THEN [raised |-> TRUE, exc |-> "ZeroDivisionError", val |-> <<a, b>>]
    ELSE [raised |-> FALSE, exc |-> "none", val |-> <<a, b>>]

\* What lines 375-430 display, in order, for predicted value P.
\* median_income is in tenths: median_income * 10000 is tenths * 1000,
\* median_income * 10 is the tenths themselves.
Items(row, P) ==
    << [el |-> "prediction-result",  div |-> FALSE, arg |-> P],
       [el |-> "Price per Room",     div |-> TRUE,  arg |-> <<P, row.total_rooms>>],
       [el |-> "Price per Bedroom",  div |-> TRUE,  arg |-> <<P, row.total_bedrooms>>],
       [el |-> "Price-to-Income",    div |-> TRUE,  arg |-> <<P, row.median_income * 1000>>],
       [el |-> "Price per Person",   div |-> TRUE,  arg |-> <<P, row.population>>],
       [el |-> "Key Insights",       div |-> FALSE, arg |-> 0],
       [el |-> "Ocean Proximity",    div |-> FALSE, arg |-> row.ocean_proximity],
       [el |-> "Income Level",       div |-> FALSE, arg |-> row.median_income],
       [el |-> "Housing Age",        div |-> FALSE, arg |-> row.housing_median_age],
       [el |-> "Population Density", div |-> TRUE,
        arg |-> <<row.population, row.households>>] >>

\* Lines 375-430 from item i on: each f-string is evaluated, then its
\* element is displayed; a raise ends the block with what was displayed.
\* calls lists the calls and displays in the order they happen.
RECURSIVE Emit(_, _, _)
Emit(items, i, acc) ==
    IF i > Len(items) THEN acc
    ELSE LET it == items[i] IN
         IF it.div
         THEN LET q  == TrueDiv(it.arg[1], it.arg[2])
                  cs == Append(acc.calls, [op |-> "truediv", arg |-> it.arg])
              IN IF q.raised
                 THEN [calls |-> cs, out |-> acc.out, exc |-> q.exc]
                 ELSE Emit(items, i + 1,
                           [calls |-> Append(cs, [op |-> "display", arg |-> it.el]),
                            out   |-> Append(acc.out, [el |-> it.el, arg |-> q.val]),
                            exc   |-> "none"])
         ELSE Emit(items, i + 1,
                   [calls |-> Append(acc.calls, [op |-> "display", arg |-> it.el]),
                    out   |-> Append(acc.out, [el |-> it.el, arg |-> it.arg]),
                    exc   |-> "none"])

\* The try block, lines 369-430.
TryBlock(arts, row) ==
    LET X  == Transform(arts.pipeline, row)
        c1 == << [op |-> "pipeline.transform", arg |-> row] >>
    IN IF X.raised THEN [calls |-> c1, out |-> <<>>, exc |-> X.exc]
       ELSE LET y  == Predict(arts.model, X.val)
                c2 == Append(c1, [op |-> "model.predict", arg |-> X.val])
            IN IF y.raised THEN [calls |-> c2, out |-> <<>>, exc |-> y.exc]
               ELSE Emit(Items(row, y.val[1]), 1,
                         [calls |-> c2, out |-> <<>>, exc |-> "none"])

\* Mutant: the except clause runs the try block a second time.
HandlerRetries(pressed, arts, inp) ==
    IF ~pressed THEN [calls |-> <<>>, out |-> <<>>, exc |-> "none"]
    ELSE LET row == InputRow(inp)
             t   == TryBlock(arts, row)
         IN [calls |-> (<< [op |-> "DataFrame", arg |-> row] >> \o t.calls)
                       \o (IF t.exc = "none" THEN <<>>
                           ELSE t.calls \o << [op |-> "display", arg |-> "Prediction failed"] >>),
             out   |-> IF t.exc = "none" THEN t.out
                       ELSE Append(t.out, [el |-> "Prediction failed", arg |-> t.exc]),
             exc   |-> t.exc]

\* Mutant: the handler is not guarded by predict_button.
HandlerIgnoresButton(pressed, arts, inp) ==
    LET row == InputRow(inp)
        t   == TryBlock(arts, row)
    IN [calls |-> (<< [op |-> "DataFrame", arg |-> row] >> \o t.calls)
                  \o (IF t.exc = "none" THEN <<>>
                      ELSE << [op |-> "display", arg |-> "Prediction failed"] >>),
        out   |-> IF t.exc = "none" THEN t.out
                  ELSE Append(t.out, [el |-> "Prediction failed", arg |-> t.exc]),
        exc   |-> t.exc]

\* if predict_button: ..., lines 353-433.  The except clause displays
\* the message of whatever the try block raised.
Handler(pressed, arts, inp) ==
    IF ~pressed THEN [calls |-> <<>>, out |-> <<>>, exc |-> "none"]
    ELSE LET row == InputRow(inp)
             t   == TryBlock(arts, row)
         IN [calls |-> (<< [op |-> "DataFrame", arg |-> row] >> \o t.calls)
                       \o (IF t.exc = "none" THEN <<>>
                           ELSE << [op |-> "display", arg |-> "Prediction failed"] >>),
             out   |-> IF t.exc = "none" THEN t.out
                       ELSE Append(t.out, [el |-> "Prediction failed", arg |-> t.exc]),
             exc   |-> t.exc]

----------------------------------------------------------------------------
(* The cache of @st.cache_resource, line 224 *)

\* Mutant: load_models without the memoizing decorator.
CacheLookupNever(c) == Empty

\* Reading the cache entry: Empty is a miss.  The entry has no ttl and no
\* max_entries, and the script never clears it.
CacheLookup(c) == c

\* Mutant: a cache miss computes without waiting for the lock.
LockFreeAlways(l) == TRUE

\* The compute lock of a cache entry: a run that misses takes it before
\* calling the decorated function, and looks the entry up again once it
\* has it.
LockFree(l) == l = NoSession

----------------------------------------------------------------------------
(* Script runs *)

Event(o, a) == [op |-> o, arg |-> a]

Element(e, a) == [el |-> e, arg |-> a]

Ops(t) == [i \in 1..Len(t) |-> t[i].op]

Els(o) == [i \in 1..Len(o) |-> o[i].el]

Count(seq, x) == Cardinality({i \in 1..Len(seq) : seq[i] = x})

Reads(t) == Count(Ops(t), "joblib.load")

Ended(s) == pc[s] \in {"done", "stopped", "aborted"}

\* A run starts at the top of the script with the session's widget
\* values inp and, when the run was started by a click, the button set.
StartRun(s, inp, pressed) ==
    /\ runsLeft > 0
    /\ runsLeft' = runsLeft - 1
    /\ since' = [since EXCEPT ![s] = failures]
    /\ pc' = [pc EXCEPT ![s] = "call_load"]
    /\ inputs' = [inputs EXCEPT ![s] = inp]
    /\ button' = [button EXCEPT ![s] = pressed]
    /\ trace' = [trace EXCEPT ![s] = <<>>]
    /\ out' = [out EXCEPT ![s] = <<>>]
    /\ loaded' = [loaded EXCEPT ![s] = Empty]
    /\ tmpModel' = [tmpModel EXCEPT ![s] = "none"]
    /\ waited' = [waited EXCEPT ![s] = FALSE]
    /\ UNCHANGED <<files, fileWrites, cache, lock, failures>>

\* The page is opened or reloaded: every widget at its initial value.
Open(s) ==
    /\ pc[s] = "idle" \/ Ended(s)
    /\ StartRun(s, DefaultState, FALSE)

\* The user moves widgets of the form the last run displayed.
ChangeWidget(s, inp) ==
    /\ pc[s] = "done"
    /\ inp # inputs[s]
    /\ StartRun(s, inp, FALSE)

\* The user clicks the predict button the last run displayed (line 351).
ClickPredict(s) ==
    /\ pc[s] = "done"
    /\ StartRun(s, inputs[s], TRUE)

\* Line 234 calls load_models: the decorator looks the cache entry up.
CallLoad(s) ==
    /\ pc[s] = "call_load"
    /\ LET hit == CacheLookup(cache) IN
       IF hit # Empty
       THEN /\ loaded' = [loaded EXCEPT ![s] = hit]
            /\ pc' = [pc EXCEPT ![s] = "script"]
            /\ trace' = [trace EXCEPT ![s] = Append(@, Event("load_models", "hit"))]
            /\ UNCHANGED waited
       ELSE /\ pc' = [pc EXCEPT ![s] = "wait_lock"]
            /\ waited' = [waited EXCEPT ![s] = (lock # NoSession)]
            /\ trace' = [trace EXCEPT ![s] = Append(@, Event("load_models", "miss"))]
            /\ UNCHANGED loaded
    /\ UNCHANGED <<files, fileWrites, cache, lock, runsLeft, tmpModel, inputs,
                   button, out, since, failures>>

\* After a miss the run takes the compute lock and looks again: another
\* run may have stored the entry meanwhile.
Acquire(s) ==
    /\ pc[s] = "wait_lock"
    /\ LockFree(lock)
    /\ LET hit == CacheLookup(cache) IN
       IF hit # Empty
       THEN /\ loaded' = [loaded EXCEPT ![s] = hit]
            /\ pc' = [pc EXCEPT ![s] = "script"]
            /\ UNCHANGED lock
       ELSE /\ lock' = s
            /\ pc' = [pc EXCEPT ![s] = "load_model"]
            /\ UNCHANGED loaded
    /\ UNCHANGED <<files, fileWrites, cache, runsLeft, waited, tmpModel, inputs,
                   button, trace, out, since, failures>>

\* Mutant: the except clause reports the error and does not stop the run.
LoadFailsRunGoesOn(s, exc) ==
    /\ out' = [out EXCEPT ![s] = Append(@, Element("Model files not found", exc))]
    /\ pc' = [pc EXCEPT ![s] = "script"]
    /\ lock' = NoSession
    /\ failures' = failures \cup {"load"}
    /\ UNCHANGED <<cache, loaded, tmpModel>>

\* Mutant: a failed load is tried once more within the run.
LoadFailsRetried(s, exc) ==
    /\ out' = [out EXCEPT ![s] = Append(@, Element("Model files not found", exc))]
    /\ pc' = [pc EXCEPT ![s] = IF Reads(trace[s]) < 2 THEN "load_model" ELSE "stopped"]
    /\ lock' = IF Reads(trace[s]) < 2 THEN lock ELSE NoSession
    /\ failures' = failures \cup {"load"}
    /\ UNCHANGED <<cache, loaded, tmpModel>>

\* A raise inside load_models, lines 230-232: FileNotFoundError is
\* caught, reported with st.error, and st.stop() ends the run; any other
\* exception is not caught and ends the run with the exception shown.
\* Nothing is stored in the cache and the lock is released.
LoadFails(s, exc) ==
    /\ IF exc = "FileNotFoundError"
       THEN /\ out' = [out EXCEPT ![s] = Append(@, Element("Model files not found", exc))]
            /\ pc' = [pc EXCEPT ![s] = "stopped"]
       ELSE /\ out' = [out EXCEPT ![s] = Append(@, Element("uncaught exception", exc))]
            /\ pc' = [pc EXCEPT ![s] = "aborted"]
    /\ lock' = NoSession
    /\ failures' = failures \cup {"load"}
    /\ UNCHANGED <<cache, loaded, tmpModel>>

\* Line 227: model = joblib.load("model.pkl").  The trace keeps, with the
\* file name, what the file held when it was read.
LoadModel(s) ==
    /\ pc[s] = "load_model"
    /\ trace' = [trace EXCEPT ![s] = Append(@, Event("joblib.load", <<"model.pkl", files["model.pkl"]>>))]
    /\ LET r == JoblibLoad(files["model.pkl"]) IN
       IF r.raised THEN LoadFails(s, r.exc)
       ELSE /\ tmpModel' = [tmpModel EXCEPT ![s] = r.val]
            /\ pc' = [pc EXCEPT ![s] = "load_pipeline"]
            /\ UNCHANGED <<cache, lock, loaded, out, failures>>
    /\ UNCHANGED <<files, fileWrites, runsLeft, waited, inputs, button, since>>

\* Lines 228-229 and 234: pipeline = joblib.load("pipeline.pkl"); the
\* returned pair is stored in the cache and bound to model, pipeline.
LoadPipeline(s) ==
    /\ pc[s] = "load_pipeline"
    /\ trace' = [trace EXCEPT ![s] = Append(@, Event("joblib.load", <<"pipeline.pkl", files["pipeline.pkl"]>>))]
    /\ LET r == JoblibLoad(files["pipeline.pkl"]) IN
       IF r.raised THEN LoadFails(s, r.exc)
       ELSE LET pair == [model |-> tmpModel[s], pipeline |-> r.val] IN
            /\ cache' = pair
            /\ loaded' = [loaded EXCEPT ![s] = pair]
            /\ lock' = NoSession
            /\ pc' = [pc EXCEPT ![s] = "script"]
            /\ UNCHANGED <<tmpModel, out, failures>>
    /\ UNCHANGED <<files, fileWrites, runsLeft, waited, inputs, button, since>>

\* Lines 237-438: header, form and button, the prediction handler, footer.
Script(s) ==
    /\ pc[s] = "script"
    /\ LET h == Handler(button[s], loaded[s], inputs[s]) IN
       /\ trace' = [trace EXCEPT ![s] = @ \o h.calls]
       /\ out' = [out EXCEPT ![s] = (Append(@, Element("form", 0)) \o h.out)
                                     \o << Element("footer", 0) >>]
       /\ failures' = IF h.exc = "none" THEN failures ELSE failures \cup {"inference"}
    /\ pc' = [pc EXCEPT ![s] = "done"]
    /\ UNCHANGED <<files, fileWrites, cache, lock, runsLeft, waited, tmpModel,
                   loaded, inputs, button, since>>

\* The environment replaces, removes or damages an artifact file.
EnvWrite(f, c) ==
    /\ fileWrites < MaxFileWrites
    /\ c # files[f]
    /\ files' = [files EXCEPT ![f] = c]
    /\ fileWrites' = fileWrites + 1
    /\ UNCHANGED <<cache, lock, runsLeft, pc, waited, tmpModel, loaded, inputs,
                   button, trace, out, since, failures>>

Init ==
    /\ files \in [FileNames -> Contents]
    /\ fileWrites = 0
    /\ cache = Empty
    /\ lock = NoSession
    /\ runsLeft = MaxRuns
    /\ pc = [s \in Sessions |-> "idle"]
    /\ waited = [s \in Sessions |-> FALSE]
    /\ tmpModel = [s \in Sessions |-> "none"]
    /\ loaded = [s \in Sessions |-> Empty]
    /\ inputs = [s \in Sessions |-> DefaultState]
    /\ button = [s \in Sessions |-> FALSE]
    /\ trace = [s \in Sessions |-> <<>>]
    /\ out = [s \in Sessions |-> <<>>]
    /\ since = [s \in Sessions |-> {}]
    /\ failures = {}

Next ==
    \/ \E s \in Sessions : Open(s)
    \/ \E s \in Sessions : \E inp \in InputChoices : ChangeWidget(s, inp)
    \/ \E s \in Sessions : ClickPredict(s)
    \/ \E s \in Sessions : CallLoad(s)
    \/ \E s \in Sessions : Acquire(s)
    \/ \E s \in Sessions : LoadModel(s)
    \/ \E s \in Sessions : LoadPipeline(s)
    \/ \E s \in Sessions : Script(s)
    \/ \E f \in FileNames : \E c \in Contents : EnvWrite(f, c)

Spec == Init /\ [][Next]_vars

----------------------------------------------------------------------------
(* Vocabulary of the properties *)

HasOp(s, o) == \E i \in 1..Len(trace[s]) : trace[s][i].op = o

HasEl(s, e) == \E i \in 1..Len(out[s]) : out[s][i].el = e

\* The run of s read a file that was absent.
ReadMissing(s) ==
    \E i \in 1..Len(trace[s]) :
        trace[s][i].op = "joblib.load" /\ trace[s][i].arg[2] = "missing"

\* The run of s read a file that was absent or could not be unpickled.
ReadFailed(s) ==
    \E i \in 1..Len(trace[s]) :
        trace[s][i].op = "joblib.load" /\ trace[s][i].arg[2] \notin Versions

Inferred(s) == HasOp(s, "pipeline.transform") \/ HasOp(s, "model.predict")

IsPair(a) == a.model \in Versions /\ a.pipeline \in Versions

\* What a run displays for a complete result and for a failed prediction.
CompleteEls ==
    <<"form", "prediction-result", "Price per Room", "Price per Bedroom",
      "Price-to-Income", "Price per Person", "Key Insights", "Ocean Proximity",
      "Income Level", "Housing Age", "Population Density", "footer">>

FailureEls == <<"form", "Prediction failed", "footer">>

\* The ranges section 3 of the specification documents, in the model's units.
DocumentedRange ==
    [longitude          |-> -12500..-11400,
     latitude           |-> 3200..4200,
     housing_median_age |-> 1..52,
     total_rooms        |-> 1..20000,
     total_bedrooms     |-> 1..5000,
     population         |-> 1..20000,
     households         |-> 1..5000,
     median_income      |-> 5..150]

DocumentedOcean == {"<1H OCEAN", "INLAND", "ISLAND", "NEAR BAY", "NEAR OCEAN"}

InDocumentedRange(row) ==
    /\ DOMAIN row = Fields
    /\ \A f \in NumericFields : row[f] \in DocumentedRange[f]
    /\ row.ocean_proximity \in DocumentedOcean

----------------------------------------------------------------------------
\* C1: a run whose load_models read an absent artifact file displays the
\* "Model files not found" error and is stopped, and no run whose load
\* failed ever calls pipeline.transform or model.predict, whatever the
\* session's widget values and button.
C1_MissingArtifactStopsRun ==
    \A s \in Sessions :
        /\ ReadMissing(s) =>
              /\ pc[s] = "stopped"
              /\ HasEl(s, "Model files not found")
        /\ ReadFailed(s) =>
              /\ ~Inferred(s)
              /\ ~HasEl(s, "form")
              /\ loaded[s] = Empty

\* C1 witness: model.pkl was loaded, pipeline.pkl was absent, the run is
\* stopped with the error displayed.
C1_Witness ==
    \E s \in Sessions :
        /\ pc[s] = "stopped"
        /\ Reads(trace[s]) = 2
        /\ ReadMissing(s)
        /\ Els(out[s]) = <<"Model files not found">>

----------------------------------------------------------------------------
\* C2: once load_models has succeeded (the cache entry is set) the entry
\* never changes, no run reads an artifact file again, and every run that
\* is past line 234 holds exactly the cached pair.
C2_Memoized ==
    /\ [](\A s \in Sessions : pc[s] \in {"script", "done"} => loaded[s] = cache)
    /\ [][cache # Empty =>
             /\ cache' = cache
             /\ \A s \in Sessions : Reads(trace'[s]) <= Reads(trace[s])]_vars

\* C2 witness: a file on disk no longer holds what was loaded, and a run
\* that started afterwards got the cached pair without reading a file and
\* predicted with it.
C2_Witness ==
    \E s \in Sessions :
        /\ cache # Empty
        /\ \E f \in FileNames : files[f] \notin {cache.model, cache.pipeline}
        /\ fileWrites > 0
        /\ pc[s] = "done" /\ button[s]
        /\ Reads(trace[s]) = 0
        /\ loaded[s] = cache
        /\ HasOp(s, "model.predict")

----------------------------------------------------------------------------
\* C3 as stated: after a failed load no later run starts another load
\* attempt or reaches inference.
C3_Original ==
    \A s \in Sessions :
        "load" \in since[s] => ~HasOp(s, "joblib.load") /\ ~Inferred(s)

\* C3 amended: a failed load ends the run that made it, and only that
\* run: the failed read is the last call of the run (no retry, no
\* inference), an absent file gives the st.error report and st.stop, a
\* file that cannot be unpickled an uncaught exception, and nothing is
\* bound or cached by the failure; a run reaches the form only with a
\* loaded pair.
C3_FailedLoadEndsOnlyItsRun ==
    \A s \in Sessions :
        /\ ReadFailed(s) =>
              /\ trace[s][Len(trace[s])].op = "joblib.load"
              /\ trace[s][Len(trace[s])].arg[2] \notin Versions
              /\ Reads(trace[s]) <= 2
              /\ pc[s] = (IF ReadMissing(s) THEN "stopped" ELSE "aborted")
              /\ Els(out[s]) = (IF ReadMissing(s) THEN <<"Model files not found">>
                                ELSE <<"uncaught exception">>)
              /\ lock # s
              /\ loaded[s] = Empty
        /\ pc[s] \in {"script", "done"} => IsPair(loaded[s]) /\ ~ReadFailed(s)

\* C3 witness: a run started after a load had failed has made its own
\* load attempt, which failed too.
C3_Witness ==
    \E s \in Sessions :
        /\ "load" \in since[s]
        /\ ReadFailed(s)
        /\ pc[s] \in {"stopped", "aborted"}

----------------------------------------------------------------------------
\* C4: whenever pipeline.transform is called its argument holds exactly
\* the nine fields, each within its documented range.
C4_RecordInRange ==
    \A s \in Sessions : \A i \in 1..Len(trace[s]) :
        trace[s][i].op = "pipeline.transform" => InDocumentedRange(trace[s][i].arg)

\* C4 witness: transform was called on a row with every numeric field at
\* the upper end of its range and the third ocean option.
C4_Witness ==
    \E s \in Sessions : \E i \in 1..Len(trace[s]) :
        /\ trace[s][i].op = "pipeline.transform"
        /\ trace[s][i].arg.total_rooms = 20000
        /\ trace[s][i].arg.median_income = 150
        /\ trace[s][i].arg.longitude = -11400
        /\ trace[s][i].arg.ocean_proximity = "ISLAND"

----------------------------------------------------------------------------
\* C5: a run whose transform or predict raised displays "Prediction
\* failed" with the raised exception's message, has called transform and
\* predict at most once each, and runs on to the footer with the cache
\* intact; a run started after an inference failure gets the same cached
\* pair without loading, and is served in full when its record is one the
\* artifacts accept.
Accepted(arts, row) ==
    /\ ~Transform(arts.pipeline, row).raised
    /\ ~Predict(arts.model, Transform(arts.pipeline, row).val).raised

C5_InferenceFailureIsPerRequest ==
    \A s \in Sessions :
        /\ HasEl(s, "Prediction failed") =>
              /\ pc[s] = "done"
              /\ Els(out[s]) = FailureEls
              /\ out[s][2].arg \in {"ValueError: unknown category",
                                    "ValueError: feature shape mismatch"}
              /\ out[s][2].arg = (IF HasOp(s, "model.predict")
                                  THEN Predict(loaded[s].model,
                                               Transform(loaded[s].pipeline,
                                                         InputRow(inputs[s])).val).exc
                                  ELSE Transform(loaded[s].pipeline,
                                                 InputRow(inputs[s])).exc)
              /\ Count(Ops(trace[s]), "pipeline.transform") = 1
              /\ Count(Ops(trace[s]), "model.predict") <= 1
              /\ loaded[s] = cache
              /\ lock # s
        /\ ("inference" \in since[s] /\ pc[s] = "done") =>
              /\ loaded[s] = cache
              /\ Reads(trace[s]) = 0
              /\ (button[s] /\ Accepted(cache, InputRow(inputs[s])))
                     => Els(out[s]) = CompleteEls

\* C5 witness: a run started after a prediction had failed is served in
\* full from the cached pair.
C5_Witness ==
    \E s \in Sessions :
        /\ "inference" \in since[s]
        /\ pc[s] = "done" /\ button[s]
        /\ Els(out[s]) = CompleteEls
        /\ loaded[s] = cache

----------------------------------------------------------------------------
\* C6: a finished prediction request displays either the complete result
\* (the predicted value and every derived metric) or the failure report,
\* never both and never a part of the result.
C6_NoPartialResult ==
    \A s \in Sessions :
        /\ (pc[s] = "done" /\ button[s]) => Els(out[s]) \in {CompleteEls, FailureEls}
        /\ HasEl(s, "Prediction failed") => ~HasEl(s, "prediction-result")

\* C6 witness: one session shows a complete result while another, with
\* the same artifacts, shows only the failure report of a rejected row.
C6_Witness ==
    \E s, t \in Sessions :
        /\ pc[s] = "done" /\ button[s] /\ Els(out[s]) = CompleteEls
        /\ pc[t] = "done" /\ button[t] /\ Els(out[t]) = FailureEls
        /\ ~HasOp(t, "model.predict")

----------------------------------------------------------------------------
\* C7: every division evaluated for a derived metric has a nonzero
\* divisor, and a served request evaluates all five.
C7_DivisorsNonzero ==
    \A s \in Sessions :
        /\ \A i \in 1..Len(trace[s]) :
              trace[s][i].op = "truediv" => trace[s][i].arg[2] # 0
        /\ HasEl(s, "prediction-result") => Count(Ops(trace[s]), "truediv") = 5

\* C7 witness: the five divisions were evaluated with every divisor input
\* at its minimum (1 room, bedroom, person and household, income 0.5).
C7_Witness ==
    \E s \in Sessions :
        /\ Count(Ops(trace[s]), "truediv") = 5
        /\ \A f \in {"total_rooms", "total_bedrooms", "population", "households"} :
              inputs[s][f] = 1
        /\ inputs[s].median_income = 5
        /\ \E i \in 1..Len(trace[s]) :
              trace[s][i].op = "truediv" /\ trace[s][i].arg[2] = 5000

----------------------------------------------------------------------------
\* C9 as stated: a run that called load_models while another run's load
\* was in progress never performs a load of its own.
C9_Original ==
    \A s \in Sessions : waited[s] => ~HasOp(s, "joblib.load")

\* C9 amended: at most one run is inside load_models' body at a time and
\* it holds the lock; a run that arrived during another run's load reads
\* the files itself only after a load has failed, and otherwise proceeds
\* with the pair that load cached.
C9_OneLoaderAtATime ==
    /\ Cardinality({s \in Sessions : pc[s] \in {"load_model", "load_pipeline"}}) <= 1
    /\ \A s \in Sessions :
          /\ pc[s] \in {"load_model", "load_pipeline"} => lock = s /\ cache = Empty
          /\ (waited[s] /\ HasOp(s, "joblib.load")) => "load" \in failures
          /\ (waited[s] /\ pc[s] \in {"script", "done"} /\ ~HasOp(s, "joblib.load"))
                => loaded[s] = cache /\ IsPair(cache)

\* C9 witness: a run that arrived during another run's load went on with
\* the pair that load cached, without reading a file.
C9_Witness ==
    \E s \in Sessions :
        /\ waited[s]
        /\ pc[s] \in {"script", "done"}
        /\ Reads(trace[s]) = 0
        /\ loaded[s] = cache
        /\ IsPair(cache)

----------------------------------------------------------------------------
\* C10: in a run, transform and predict are called only when the button
\* was pressed and a loaded pair is bound; the row is built first, then
\* transform is called once on that row, then predict at most once, on
\* what transform returned and only if transform did not raise; every
\* display of the handler comes after these calls.
Pos(t, o) == CHOOSE i \in 1..Len(t) : t[i].op = o

C10_StepsInOrder ==
    \A s \in Sessions :
        LET t == trace[s] IN
        /\ Inferred(s) => button[s] /\ IsPair(loaded[s]) /\ pc[s] = "done"
        /\ (pc[s] = "done" /\ button[s]) => HasOp(s, "pipeline.transform")
        /\ Count(Ops(t), "pipeline.transform") <= 1
        /\ Count(Ops(t), "model.predict") <= 1
        /\ HasOp(s, "pipeline.transform") =>
              LET i == Pos(t, "pipeline.transform") IN
              /\ i > 1
              /\ t[i - 1].op = "DataFrame"
              /\ t[i].arg = t[i - 1].arg
              /\ t[i].arg = InputRow(inputs[s])
        /\ HasOp(s, "model.predict") =>
              LET j == Pos(t, "model.predict") IN
              /\ j > 1
              /\ t[j - 1].op = "pipeline.transform"
              /\ ~Transform(loaded[s].pipeline, t[j - 1].arg).raised
              /\ t[j].arg = Transform(loaded[s].pipeline, t[j - 1].arg).val
        /\ \A k \in 1..Len(t) :
              t[k].op = "display" =>
                  /\ HasOp(s, "pipeline.transform")
                  /\ k > Pos(t, "pipeline.transform")
                  /\ t[k].arg # "Prediction failed" =>
                        HasOp(s, "model.predict") /\ k > Pos(t, "model.predict")

\* C10 witness: a run whose transform raised: predict was not called and
\* only the failure was displayed.
C10_Witness ==
    \E s \in Sessions :
        /\ pc[s] = "done"
        /\ HasOp(s, "pipeline.transform")
        /\ ~HasOp(s, "model.predict")
        /\ Ops(trace[s]) = <<"load_models", "DataFrame", "pipeline.transform", "display">>

====
